---------------------------- MODULE Spec2Model ----------------------------
(***************************************************************************)
(* The edge gateway of src/src/main.rs: main (CORS preflight, error        *)
(* mapping, final CORS header) and handle_request (token extraction,       *)
(* configuration lookups, JWT verification, routing, the two-hop           *)
(* watermarking orchestration and its fallbacks).                          *)
(*                                                                         *)
(* One request is handled at a time by one sequential invocation.  The     *)
(* handler is cut into steps at its external interactions (KV store        *)
(* lookups, backend sends); pc is its position.  The configuration stores  *)
(* and the two backends are the environment: what a lookup or a send       *)
(* returns is chosen at the moment of the call.                            *)
(***************************************************************************)
EXTENDS Integers, Sequences, FiniteSets, TLC

(***************************************************************************)
(* Program constants.                                                      *)
(***************************************************************************)
PRIMARY_BACKEND == "origin_1"
WATERMARKING_BACKEND == "origin_2"
KV_STORE_SECRETS == "secrets"
DICTIONARY_API_KEYS == "api_keys"
DICTIONARY_CONFIG == "watermarking_config"
MAX_AUDIO_SEGMENT_SIZE == 500 * 1024

(***************************************************************************)
(* Bounds of the model.                                                    *)
(***************************************************************************)
\* Segment bodies have lengths 0 and MAX_AUDIO_SEGMENT_SIZE - 1 + d for d in
\* 1..MaxOver (the threshold itself and the lengths just above it).
MaxOver == 2

(***************************************************************************)
(* Strings the code inspects are sequences of one-character strings.       *)
(***************************************************************************)
IsWhitespace(c) == c \in {" ", "\n", "\t"}

RECURSIVE TrimStart(_)
TrimStart(s) ==
    IF s # <<>> /\ IsWhitespace(Head(s)) THEN TrimStart(Tail(s)) ELSE s

RECURSIVE TrimEnd(_)
TrimEnd(s) ==
    IF s # <<>> /\ IsWhitespace(s[Len(s)])
    THEN TrimEnd(SubSeq(s, 1, Len(s) - 1))
    ELSE s

\* Trim that strips nothing.
TrimNothing(s) == s

\* str::trim
Trim(s) == TrimEnd(TrimStart(s))

\* str::ends_with
EndsWith(s, suffix) ==
    /\ Len(s) >= Len(suffix)
    /\ SubSeq(s, Len(s) - Len(suffix) + 1, Len(s)) = suffix

HexDigits == {"a", "b", "c", "d"}
HexVal(c) == CASE c = "a" -> 10 [] c = "b" -> 11 [] c = "c" -> 12 [] c = "d" -> 13

\* hex::decode: an odd length or a non-hex character is an error, otherwise
\* each pair of digits is one byte.
HexOk(s) == Len(s) % 2 = 0 /\ \A i \in 1..Len(s) : s[i] \in HexDigits
HexDecode(s) ==
    [i \in 1..(Len(s) \div 2) |-> 16 * HexVal(s[2 * i - 1]) + HexVal(s[2 * i])]

(***************************************************************************)
(* HTTP values.                                                            *)
(***************************************************************************)
\* A body is its bytes (an opaque name) and its length; every empty body is
\* the same body.
EmptyBody == [data |-> "", len |-> 0]
Body(d, n) == IF n = 0 THEN EmptyBody ELSE [data |-> d, len |-> n]

\* IsSuccess with every status below 500 taken as a success.
IsSuccessBelow500(status) == status >= 200 /\ status < 500

\* StatusCode::is_success
IsSuccess(status) == status >= 200 /\ status < 300

\* A header map is a sequence of <<name, value>> pairs, names in lower case;
\* a multi-valued header is several pairs with one name.
ACAO == "access-control-allow-origin"
ACAM == "access-control-allow-methods"
ACAH == "access-control-allow-headers"
CONTENT_TYPE == "content-type"

RECURSIVE RemoveHeader(_, _)
RemoveHeader(hs, name) ==
    IF hs = <<>> THEN <<>>
    ELSE IF Head(hs)[1] = name THEN RemoveHeader(Tail(hs), name)
    ELSE <<Head(hs)>> \o RemoveHeader(Tail(hs), name)

\* set_header: discards every previous value of the name.
SetHeader(hs, name, value) == Append(RemoveHeader(hs, name), <<name, value>>)

\* with_header / append_header: keeps the previous values.
AppendHeader(hs, name, value) == Append(hs, <<name, value>>)

\* The values of a header, in order.
RECURSIVE HeaderValues(_, _)
HeaderValues(hs, name) ==
    IF hs = <<>> THEN <<>>
    ELSE IF Head(hs)[1] = name
         THEN <<Head(hs)[2]>> \o HeaderValues(Tail(hs), name)
         ELSE HeaderValues(Tail(hs), name)

HeaderNames(hs) == {hs[i][1] : i \in 1..Len(hs)}

\* Response::from_status(status)
FromStatus(status) == [status |-> status, headers |-> <<>>, body |-> EmptyBody]

\* with_body_text_plain
WithBodyTextPlain(r, text, n) ==
    [r EXCEPT !.headers = SetHeader(@, CONTENT_TYPE, "text/plain; charset=utf-8"),
              !.body = Body(text, n)]

MissingTokenResponse ==
    WithBodyTextPlain(FromStatus(401), "Missing authorization token.\n", 29)
ConfigErrorResponse ==
    WithBodyTextPlain(FromStatus(500), "Server configuration error.\n", 28)
InvalidJwtResponse ==
    WithBodyTextPlain(FromStatus(401), "Invalid JWT.\n", 13)
InternalErrorResponse ==
    WithBodyTextPlain(FromStatus(500), "An internal error occurred.\n", 28)

\* PreflightResponse with Allow-Headers forgotten.
PreflightResponseTwoHeaders ==
    [FromStatus(200) EXCEPT !.headers =
        AppendHeader(AppendHeader(<<>>,
            ACAO, "*"),
            ACAM, "GET, HEAD, POST, OPTIONS")]

PreflightResponse ==
    [FromStatus(200) EXCEPT !.headers =
        AppendHeader(AppendHeader(AppendHeader(<<>>,
            ACAO, "*"),
            ACAM, "GET, HEAD, POST, OPTIONS"),
            ACAH, "Content-Type, Authorization, X-API-Key")]

\* What handle_request returns: Ok(response) or Err(e).
Ok(r) == [ok |-> TRUE, resp |-> r]
Err == [ok |-> FALSE, resp |-> FromStatus(0)]

\* MainFinish with an Err answered as a bad gateway.
MainFinishBadGateway(result) ==
    LET r == IF result.ok THEN result.resp
             ELSE [InternalErrorResponse EXCEPT !.status = 502]
    IN  [r EXCEPT !.headers = SetHeader(@, ACAO, "*")]

\* MainFinish with the CORS header appended instead of set.
MainFinishAppend(result) ==
    LET r == IF result.ok THEN result.resp ELSE InternalErrorResponse
    IN  [r EXCEPT !.headers = AppendHeader(@, ACAO, "*")]

\* main, lines 51-62: an Err becomes the generic 500, then the CORS header
\* is set on whatever is returned.
MainFinish(result) ==
    LET r == IF result.ok THEN result.resp ELSE InternalErrorResponse
    IN  [r EXCEPT !.headers = SetHeader(@, ACAO, "*")]


(***************************************************************************)
(* Options and lookup results.                                             *)
(***************************************************************************)
None == [some |-> FALSE]
Some(x) == [some |-> TRUE, val |-> x]

\* KVStore::open gives Ok(Some(store)), Ok(None) or Err; lookup gives
\* Ok(Some(body)), Ok(None) or Err.
OpenResults == {"ok", "missing", "err"}
Absent == [kind |-> "absent"]
LookupError == [kind |-> "error"]
Value(v) == [kind |-> "value", val |-> v]

(***************************************************************************)
(* Secret derivation and token verification.                               *)
(***************************************************************************)
\* derive_jwt_secret with the API key left out of the message.
derive_without_api_key(api_key, master_secret) ==
    <<"HMAC-SHA256", master_secret, <<"jwt_secret:">>>>

\* derive_jwt_secret: HMAC-SHA256 keyed by the master secret over
\* "jwt_secret:" followed by the API key.  The MAC is an injective function
\* of (key, message); new_from_slice accepts a key of any length.
derive_jwt_secret(api_key, master_secret) ==
    <<"HMAC-SHA256", master_secret, <<"jwt_secret:">> \o api_key>>

\* A signed-claims token is one opaque symbol of the string that carries it;
\* JwtTable says how each was made: the API key and master secret its issuer
\* held (issuer), the key it was signed with, whether its expiry is in the
\* past and whether the user_key claim is there.
K1 == <<"k", "1">>
K2 == <<"k", "2">>
S1 == <<171>>
JwtTable ==
    ("tok_good"     :> [issuer |-> [api_key |-> K1, master_secret |-> S1],
                        sig |-> derive_jwt_secret(K1, S1), expired |-> FALSE,
                        user_key |-> Some("u1")]) @@
    ("tok_expired"  :> [issuer |-> [api_key |-> K1, master_secret |-> S1],
                        sig |-> derive_jwt_secret(K1, S1), expired |-> TRUE,
                        user_key |-> Some("u1")]) @@
    ("tok_otherkey" :> [issuer |-> [api_key |-> K2, master_secret |-> S1],
                        sig |-> derive_jwt_secret(K2, S1), expired |-> FALSE,
                        user_key |-> Some("u2")]) @@
    ("tok_noclaim"  :> [issuer |-> [api_key |-> K1, master_secret |-> S1],
                        sig |-> derive_jwt_secret(K1, S1), expired |-> FALSE,
                        user_key |-> None])
JwtNames == DOMAIN JwtTable

\* Decode with the expiry validation left out.
DecodeNoExpiry(token, key) ==
    IF ~(Len(token) = 1 /\ token[1] \in JwtNames)
    THEN [ok |-> FALSE, kind |-> "InvalidToken"]
    ELSE LET jwt == JwtTable[token[1]]
         IN  IF jwt.sig # key
             THEN [ok |-> FALSE, kind |-> "InvalidSignature"]
             ELSE IF ~jwt.user_key.some
             THEN [ok |-> FALSE, kind |-> "Json"]
             ELSE [ok |-> TRUE, kind |-> "", claims |-> [user_key |-> jwt.user_key.val]]

\* decode::<Claims>(token, key, Validation::default()): the structure is
\* checked first, then the signature, then the claims are deserialized, then
\* the expiry is validated.
Decode(token, key) ==
    IF ~(Len(token) = 1 /\ token[1] \in JwtNames)
    THEN [ok |-> FALSE, kind |-> "InvalidToken"]
    ELSE LET jwt == JwtTable[token[1]]
         IN  IF jwt.sig # key
             THEN [ok |-> FALSE, kind |-> "InvalidSignature"]
             ELSE IF ~jwt.user_key.some
             THEN [ok |-> FALSE, kind |-> "Json"]
             ELSE IF jwt.expired
             THEN [ok |-> FALSE, kind |-> "ExpiredSignature"]
             ELSE [ok |-> TRUE, kind |-> "", claims |-> [user_key |-> jwt.user_key.val]]

(***************************************************************************)
(* Requests.                                                               *)
(***************************************************************************)
BearerPrefix == <<"B", "e", "a", "r", "e", "r", " ">>
BasicPrefix == <<"B", "a", "s", "i", "c", " ">>

\* str::strip_prefix
StripPrefix(s, prefix) ==
    IF Len(s) >= Len(prefix) /\ SubSeq(s, 1, Len(prefix)) = prefix
    THEN Some(SubSeq(s, Len(prefix) + 1, Len(s)))
    ELSE None

\* A raw query is a sequence of <<name, value>> pairs, the value a sequence of
\* symbols; "%20" and "%2B" are the percent-escapes of a space and of a plus.
\* Url::query_pairs decodes form-urlencoding: a plus or "%20" is a space.
DecodeSymbol(c) ==
    CASE c \in {"+", "%20"} -> " "
      [] c = "%2B" -> "+"
      [] OTHER -> c
\* urlencoding::encode escapes everything but letters, digits, - _ . and ~.
EncodeSymbol(c) ==
    CASE c = " " -> "%20"
      [] c = "+" -> "%2B"
      [] OTHER -> c
QueryPairs(query) ==
    [i \in 1..Len(query) |->
        <<query[i][1], [j \in 1..Len(query[i][2]) |-> DecodeSymbol(query[i][2][j])]>>]
EncodePairs(pairs) ==
    [i \in 1..Len(pairs) |->
        <<pairs[i][1], [j \in 1..Len(pairs[i][2]) |-> EncodeSymbol(pairs[i][2][j])]>>]

\* query_pairs().find(|(key, _)| key == "token"): the first pair named token.
RECURSIVE FindToken(_)
FindToken(pairs) ==
    IF pairs = <<>> THEN None
    ELSE IF Head(pairs)[1] = "token" THEN Some(Head(pairs)[2])
    ELSE FindToken(Tail(pairs))

\* TokenOpt with the query parameter taken before the header.
TokenOptQueryFirst(r) ==
    LET fromHeader == IF r.authorization.some
                      THEN StripPrefix(r.authorization.val, BearerPrefix)
                      ELSE None
        fromQuery == FindToken(QueryPairs(r.query))
    IN  IF fromQuery.some THEN fromQuery ELSE fromHeader

\* TokenOpt with a missing token taken as the empty token.
TokenOptOrEmpty(r) ==
    LET fromHeader == IF r.authorization.some
                      THEN StripPrefix(r.authorization.val, BearerPrefix)
                      ELSE None
        fromQuery == FindToken(QueryPairs(r.query))
    IN  IF fromHeader.some THEN fromHeader
        ELSE IF fromQuery.some THEN fromQuery ELSE Some(<<>>)

\* Lines 80-88: the Bearer header first, the query parameter otherwise.
TokenOpt(r) ==
    LET fromHeader == IF r.authorization.some
                      THEN StripPrefix(r.authorization.val, BearerPrefix)
                      ELSE None
    IN  IF fromHeader.some THEN fromHeader ELSE FindToken(QueryPairs(r.query))

ManifestSuffixes ==
    { <<".", "m", "3", "u", "8">>, <<".", "m", "p", "d">>, <<".", "c", "m", "f", "v">> }

\* Line 186.
IsManifest(path) == \E suffix \in ManifestSuffixes : EndsWith(path, suffix)

Paths ==
    { <<"/", "a", ".", "m", "3", "u", "8">>,
      <<"/", "a", ".", "m", "p", "d">>,
      <<"/", "a", ".", "c", "m", "f", "v">>,
      <<"/", "a", ".", "m", "3", "u", "8", "/", "s", ".", "t", "s">> }

Authorizations ==
    {None, Some(BasicPrefix \o <<"tok_good">>), Some(BearerPrefix)}
    \cup {Some(BearerPrefix \o <<t>>) : t \in JwtNames}

Queries ==
    { <<>>,
      << <<"q", <<"a", "+", "b">>>> >>,
      << <<"q", <<"a", "+", "b">>>>, <<"token", <<"tok_good">>>> >>,
      << <<"token", <<"tok_expired">>>>, <<"token", <<"tok_good">>>> >> }

\* A GET or OPTIONS request has no body here, a POST request has one.
MethodsAndBodies ==
    { <<"GET", EmptyBody>>, <<"POST", Body("upload", 1)>>, <<"OPTIONS", EmptyBody>> }

Requests ==
    { [method |-> mb[1], path |-> p, query |-> q, authorization |-> a, body |-> mb[2]] :
        mb \in MethodsAndBodies, p \in Paths, q \in Queries, a \in Authorizations }

(***************************************************************************)
(* What the configuration stores and the backends can answer.              *)
(***************************************************************************)
\* SECRET_KEY_HEX: hex of S1 with surrounding whitespace, hex of another
\* secret, empty, whitespace only, odd length, not hex.
SecretValues ==
    { <<" ", "a", "b", "\n">>, <<"c", "d">>,
      <<>>, <<" ">>, <<"a">>, <<"z", "z">> }
SecretLookups == {Absent, LookupError} \cup {Value(v) : v \in SecretValues}

\* service_api_key: K1, K1 followed by a newline, K2, empty, whitespace only.
ApiKeyValues == { K1, K1 \o <<"\n">>, K2, <<>>, <<" ">> }
ApiKeyLookups == {Absent, LookupError} \cup {Value(v) : v \in ApiKeyValues}

ConfigFields ==
    <<"FMP4_AAC_PROFILE", "FMP4_SAMPLE_RATE", "FMP4_CHANNELS", "FMP4_TRACK_ID">>
ConfigValue(field) ==
    CASE field = "FMP4_AAC_PROFILE" -> "LC"
      [] field = "FMP4_SAMPLE_RATE" -> "44100"
      [] field = "FMP4_CHANNELS" -> "2"
      [] field = "FMP4_TRACK_ID" -> "1"

SegmentSizes ==
    {0} \cup {MAX_AUDIO_SEGMENT_SIZE - 1 + d : d \in 1..MaxOver}

OriginHeaderSets ==
    { <<>>,
      << <<CONTENT_TYPE, "audio/mp4">>,
         <<ACAO, "https://a.example">>, <<ACAO, "https://b.example">> >> }
OriginResponses ==
    { [status |-> st, headers |-> hs, body |-> Body("original", n)] :
        st \in {200, 206, 404}, hs \in OriginHeaderSets, n \in SegmentSizes }

WatermarkHeaderSets ==
    { << <<CONTENT_TYPE, "audio/mp4">> >>,
      << <<CONTENT_TYPE, "audio/mp4">>,
         <<"set-cookie", "a=1">>, <<"set-cookie", "b=2">> >>,
      << <<ACAO, "https://w.example">> >> }
\* The watermarking service answers with content and headers, or with nothing.
WatermarkResponses ==
    { [status |-> st, headers |-> hs, body |-> Body("watermarked", 1)] :
        st \in {200, 201, 500}, hs \in WatermarkHeaderSets }
    \cup { [status |-> st, headers |-> <<>>, body |-> EmptyBody] : st \in {200, 201, 500} }

\* random::<f64>() is uniform in [0, 1); draws and the probability are in
\* thousandths.
WATERMARK_PROBABILITY == 10
Draws == {0, 500, 990, 991, 999}

(***************************************************************************)
(* State.                                                                  *)
(***************************************************************************)
VARIABLES
    pc,                 \* position of the invocation
    req,                \* the inbound request
    token,              \* handle_request's locals ...
    master_secret,
    service_api_key,
    claims,
    should_watermark,
    segment_body_bytes,
    watermark_req,
    resp,               \* what main returned to the client
    returned,           \* what handle_request returned to main, if it was called
    calls,              \* every send so far in this request, in order
    kv_ops,             \* every store open and lookup so far in this request,
                        \* as <<store, key or "open", what it gave>>
    decodes,            \* how many times decode ran in this request
    origin_resp,        \* what origin_1 answered, if it did
    watermarked_resp,   \* what origin_2 answered, if it did
    log,                \* the lines printed in this request
    earlier             \* what the request before this one saw and was answered,
                        \* where two requests in a row are compared

locals == <<token, master_secret, service_api_key, claims, should_watermark,
            segment_body_bytes, watermark_req>>
history == <<calls, kv_ops, decodes, origin_resp, watermarked_resp, log>>
vars == <<pc, req, locals, resp, returned, history, earlier>>

NoRequest ==
    [method |-> "", path |-> <<>>, query |-> <<>>, authorization |-> None,
     body |-> EmptyBody]
NoOutbound ==
    [backend |-> "", method |-> "", path |-> <<>>, query |-> <<>>,
     headers |-> <<>>, body |-> EmptyBody]

Fresh ==
    /\ token = <<>>
    /\ master_secret = <<>>
    /\ service_api_key = <<>>
    /\ claims = None
    /\ should_watermark = FALSE
    /\ segment_body_bytes = EmptyBody
    /\ watermark_req = NoOutbound
    /\ resp = None
    /\ returned = None
    /\ calls = <<>>
    /\ kv_ops = <<>>
    /\ decodes = 0
    /\ origin_resp = None
    /\ watermarked_resp = None
    /\ log = <<>>

Init ==
    /\ pc = "idle"
    /\ req = NoRequest
    /\ Fresh
    /\ earlier = None

\* handle_request returns; main finishes the response.
Return(result) ==
    /\ pc' = "done"
    /\ returned' = Some(result)
    /\ resp' = Some(MainFinish(result))

\* An expect() on a store that is not there: the invocation aborts and main
\* returns nothing.
Panic ==
    /\ pc' = "panicked"
    /\ resp' = None
    /\ UNCHANGED returned

(***************************************************************************)
(* A request arrives; each request gets a fresh invocation.                *)
(***************************************************************************)
Receive(r) ==
    /\ pc = "idle"
    /\ pc' = "main"
    /\ req' = r
    /\ UNCHANGED <<locals, resp, returned, history>>
    /\ UNCHANGED earlier

(***************************************************************************)
(* main, lines 43-48: the CORS preflight.                                  *)
(***************************************************************************)
Preflight ==
    /\ pc = "main"
    /\ req.method = "OPTIONS"
    /\ pc' = "done"
    /\ resp' = Some(PreflightResponse)
    /\ UNCHANGED <<req, locals, returned, history>>
    /\ UNCHANGED earlier

(***************************************************************************)
(* handle_request, lines 80-96: locate the token.                          *)
(***************************************************************************)
ExtractToken ==
    /\ pc = "main"
    /\ req.method # "OPTIONS"
    /\ LET token_opt == TokenOpt(req)
       IN  IF token_opt.some
           THEN /\ token' = token_opt.val
                /\ pc' = "secret"
                /\ UNCHANGED <<resp, returned>>
           ELSE /\ Return(Ok(MissingTokenResponse))
                /\ UNCHANGED token
    /\ UNCHANGED <<req, master_secret, service_api_key, claims, should_watermark,
                   segment_body_bytes, watermark_req, history>>
    /\ UNCHANGED earlier

(***************************************************************************)
(* handle_request, lines 99-123: the master secret.                        *)
(***************************************************************************)
LookupSecret(open, found) ==
    /\ pc = "secret"
    /\ kv_ops' = kv_ops \o
          (IF open = "ok"
           THEN << <<KV_STORE_SECRETS, "open", [kind |-> open]>>,
                   <<KV_STORE_SECRETS, "SECRET_KEY_HEX", found>> >>
           ELSE << <<KV_STORE_SECRETS, "open", [kind |-> open]>> >>)
    /\ IF open = "err" THEN
            /\ Return(Err)
            /\ UNCHANGED <<master_secret, log>>
       ELSE IF open = "missing" THEN
            /\ Panic
            /\ UNCHANGED <<master_secret, log>>
       ELSE IF found.kind = "error" THEN
            /\ Return(Err)
            /\ UNCHANGED <<master_secret, log>>
       ELSE IF found.kind = "absent" THEN
            /\ Return(Ok(ConfigErrorResponse))
            /\ log' = Append(log, <<"SECRET_KEY_HEX not found in KV store">>)
            /\ UNCHANGED master_secret
       ELSE IF Trim(found.val) = <<>> THEN
            /\ Return(Ok(ConfigErrorResponse))
            /\ log' = Append(log, <<"SECRET_KEY_HEX is empty in KV store">>)
            /\ UNCHANGED master_secret
       ELSE IF ~HexOk(Trim(found.val)) THEN
            /\ Return(Ok(ConfigErrorResponse))
            /\ log' = Append(log, <<"Failed to decode SECRET_KEY_HEX from hex">>)
            /\ UNCHANGED master_secret
       ELSE /\ master_secret' = HexDecode(Trim(found.val))
            /\ pc' = "api_key"
            /\ UNCHANGED <<resp, returned, log>>
    /\ UNCHANGED <<req, token, service_api_key, claims, should_watermark,
                   segment_body_bytes, watermark_req, calls, decodes,
                   origin_resp, watermarked_resp>>
    /\ UNCHANGED earlier

(***************************************************************************)
(* handle_request, lines 126-140: the service API key.                     *)
(***************************************************************************)
LookupApiKey(open, found) ==
    /\ pc = "api_key"
    /\ kv_ops' = kv_ops \o
          (IF open = "ok"
           THEN << <<DICTIONARY_API_KEYS, "open", [kind |-> open]>>,
                   <<DICTIONARY_API_KEYS, "service_api_key", found>> >>
           ELSE << <<DICTIONARY_API_KEYS, "open", [kind |-> open]>> >>)
    /\ IF open = "err" THEN
            /\ Return(Err)
            /\ UNCHANGED <<service_api_key, log>>
       ELSE IF open = "missing" THEN
            /\ Panic
            /\ UNCHANGED <<service_api_key, log>>
       ELSE IF found.kind = "error" THEN
            /\ Return(Err)
            /\ UNCHANGED <<service_api_key, log>>
       ELSE IF found.kind = "absent" THEN
            /\ Return(Ok(ConfigErrorResponse))
            /\ log' = Append(log, <<"service_api_key not found in KV store">>)
            /\ UNCHANGED service_api_key
       ELSE IF Trim(found.val) = <<>> THEN
            /\ Return(Ok(ConfigErrorResponse))
            /\ log' = Append(log, <<"service_api_key is empty in KV store">>)
            /\ UNCHANGED service_api_key
       ELSE /\ service_api_key' = found.val
            /\ pc' = "verify"
            /\ UNCHANGED <<resp, returned, log>>
    /\ UNCHANGED <<req, token, master_secret, claims, should_watermark,
                   segment_body_bytes, watermark_req, calls, decodes,
                   origin_resp, watermarked_resp>>
    /\ UNCHANGED earlier

\* VerificationFailure with the class of the failure told to the client.
VerificationFailureTold(kind) ==
    IF kind = "ExpiredSignature"
    THEN WithBodyTextPlain(FromStatus(401), "Token expired.\n", 15)
    ELSE InvalidJwtResponse

\* Lines 151-179: whatever the error kind is, it goes to the log only and the
\* response is the same.
VerificationFailure(kind) == InvalidJwtResponse

\* &s[..min(s.len(), n)]
Prefix(s, n) == SubSeq(s, 1, IF Len(s) < n THEN Len(s) ELSE n)

(***************************************************************************)
(* handle_request, lines 143-180: derive the key and verify the token.     *)
(***************************************************************************)
VerifyToken ==
    /\ pc = "verify"
    /\ decodes' = decodes + 1
    /\ LET jwt_secret_bytes == derive_jwt_secret(service_api_key, master_secret)
           decoded == Decode(token, jwt_secret_bytes)
       IN  IF decoded.ok
           THEN /\ claims' = Some(decoded.claims)
                /\ pc' = "route"
                /\ UNCHANGED <<resp, returned, log>>
           ELSE /\ Return(Ok(VerificationFailure(decoded.kind)))
                /\ log' = log \o
                     << <<"JWT verification failed", decoded.kind>>,
                        <<"API key used for secret derivation", Prefix(service_api_key, 10)>>,
                        <<"Master secret length", Len(master_secret)>>,
                        <<"Derived JWT secret length", 32>>,
                        <<"Error", IF decoded.kind \in {"InvalidSignature", "ExpiredSignature", "InvalidToken"}
                                   THEN decoded.kind ELSE "Other">> >>
                /\ UNCHANGED claims
    /\ UNCHANGED <<req, token, master_secret, service_api_key, should_watermark,
                   segment_body_bytes, watermark_req, calls, kv_ops,
                   origin_resp, watermarked_resp>>
    /\ UNCHANGED earlier

(***************************************************************************)
(* handle_request, lines 183-199: manifest or segment, and the draw.       *)
(***************************************************************************)
Route(draw) ==
    /\ pc = "route"
    /\ IF IsManifest(req.path)
       THEN /\ pc' = "manifest"
            /\ UNCHANGED <<should_watermark, log>>
       ELSE /\ should_watermark' = (draw > 1000 - WATERMARK_PROBABILITY)
            /\ pc' = IF should_watermark' THEN "fetch" ELSE "standard"
            /\ log' = IF should_watermark'
                      THEN Append(log, <<"Watermarking segment", req.path>>)
                      ELSE log
    /\ UNCHANGED <<req, token, master_secret, service_api_key, claims,
                   segment_body_bytes, watermark_req, resp, returned, calls,
                   kv_ops,
                   decodes, origin_resp, watermarked_resp>>
    /\ UNCHANGED earlier

\* CleanRequest with the Authorization header of the client carried over.
CleanRequestWithAuthorization(r) ==
    [backend |-> PRIMARY_BACKEND, method |-> r.method, path |-> r.path,
     query |-> r.query,
     headers |-> IF r.authorization.some
                 THEN << <<"authorization", r.authorization.val>> >>
                 ELSE <<>>,
     body |-> r.body]

\* CleanRequest with the method fixed to GET.
CleanRequestGet(r) ==
    [backend |-> PRIMARY_BACKEND, method |-> "GET", path |-> r.path,
     query |-> r.query, headers |-> <<>>, body |-> r.body]

\* Request::new(method, url) with the inbound body: no header is carried over.
CleanRequest(r) ==
    [backend |-> PRIMARY_BACKEND, method |-> r.method, path |-> r.path,
     query |-> r.query, headers |-> <<>>, body |-> r.body]

\* What a send can give: a transport error or a response.
TransportError == [sent |-> FALSE]
Answer(r) == [sent |-> TRUE, resp |-> r]
OriginOutcomes == {TransportError} \cup {Answer(r) : r \in OriginResponses}
WatermarkOutcomes == {TransportError} \cup {Answer(r) : r \in WatermarkResponses}

\* clean_req.send(PRIMARY_BACKEND)?, returned as it is.
Forward(outcome) ==
    /\ calls' = Append(calls, CleanRequest(req))
    /\ IF outcome.sent
       THEN /\ origin_resp' = Some(outcome.resp)
            /\ Return(Ok(outcome.resp))
       ELSE /\ Return(Err)
            /\ UNCHANGED origin_resp
    /\ UNCHANGED <<req, locals, kv_ops, decodes, watermarked_resp, log>>
    /\ UNCHANGED earlier

(***************************************************************************)
(* handle_request, lines 186-194: a manifest goes to the primary origin.   *)
(***************************************************************************)
ForwardManifest(outcome) ==
    /\ pc = "manifest"
    /\ Forward(outcome)

(***************************************************************************)
(* handle_request, lines 357-366: a segment that is not selected.          *)
(***************************************************************************)
ForwardStandard(outcome) ==
    /\ pc = "standard"
    /\ Forward(outcome)

\* TooLarge without a limit.
TooLargeNever(bytes) == FALSE

\* TooLarge off by one.
TooLargeOffByOne(bytes) == bytes.len > MAX_AUDIO_SEGMENT_SIZE + 1

\* Line 218.
TooLarge(bytes) == bytes.len > MAX_AUDIO_SEGMENT_SIZE

\* WatermarkRequest with the method of the client's request.
WatermarkRequestSameMethod(r, user_key, body) ==
    [backend |-> WATERMARKING_BACKEND, method |-> r.method, path |-> r.path,
     query |-> EncodePairs(Append(QueryPairs(r.query), <<"user_key", <<user_key>>>>)),
     headers |-> AppendHeader(<<>>, CONTENT_TYPE, "application/octet-stream"),
     body |-> body]

\* Lines 228-246: the request for the watermarking service.
WatermarkRequest(r, user_key, body) ==
    [backend |-> WATERMARKING_BACKEND, method |-> "POST", path |-> r.path,
     query |-> EncodePairs(Append(QueryPairs(r.query), <<"user_key", <<user_key>>>>)),
     headers |-> AppendHeader(<<>>, CONTENT_TYPE, "application/octet-stream"),
     body |-> body]

(***************************************************************************)
(* handle_request, lines 203-246: fetch the original segment.              *)
(***************************************************************************)
FetchOriginal(outcome) ==
    /\ pc = "fetch"
    /\ calls' = Append(calls, CleanRequest(req))
    /\ IF ~outcome.sent THEN
            /\ Return(Err)
            /\ UNCHANGED <<origin_resp, segment_body_bytes, watermark_req, log>>
       ELSE /\ origin_resp' = Some(outcome.resp)
            /\ IF ~IsSuccess(outcome.resp.status) THEN
                    /\ Return(Ok(outcome.resp))
                    /\ log' = Append(log, <<"WATERMARKING: Failed to fetch original segment from primary backend.">>)
                    /\ UNCHANGED <<segment_body_bytes, watermark_req>>
               ELSE /\ segment_body_bytes' = outcome.resp.body
                    /\ IF TooLarge(outcome.resp.body) THEN
                            /\ Return(Ok([FromStatus(200) EXCEPT !.body = outcome.resp.body]))
                            /\ log' = Append(log, <<"WATERMARKING: Skipping segment (too large)", outcome.resp.body.len, req.path>>)
                            /\ UNCHANGED watermark_req
                       ELSE /\ watermark_req' =
                                  WatermarkRequest(req, claims.val.user_key, outcome.resp.body)
                            /\ pc' = "wm_api_key"
                            /\ log' = log \o
                                 << <<"WATERMARKING: Sending segment to watermarking service for path", req.path>>,
                                    <<"WATERMARKING: Request URL", req.path, watermark_req'.query>>,
                                    <<"WATERMARKING: Binary payload size", outcome.resp.body.len>>,
                                    <<"WATERMARKING: User key", claims.val.user_key>> >>
                            /\ UNCHANGED <<resp, returned>>
    /\ UNCHANGED <<req, token, master_secret, service_api_key, claims,
                   should_watermark, kv_ops, decodes, watermarked_resp>>
    /\ UNCHANGED earlier

(***************************************************************************)
(* handle_request, lines 249-269: the API key for the watermarking         *)
(* service, looked up a second time.                                       *)
(***************************************************************************)
PrepareApiKey(open, found) ==
    /\ pc = "wm_api_key"
    /\ kv_ops' = kv_ops \o
          (IF open = "ok"
           THEN << <<DICTIONARY_API_KEYS, "open", [kind |-> open]>>,
                   <<DICTIONARY_API_KEYS, "service_api_key", found>> >>
           ELSE << <<DICTIONARY_API_KEYS, "open", [kind |-> open]>> >>)
    /\ IF open = "err" THEN
            /\ Return(Err)
            /\ UNCHANGED <<watermark_req, log>>
       ELSE IF open = "missing" THEN
            /\ Panic
            /\ UNCHANGED <<watermark_req, log>>
       ELSE IF found.kind = "error" THEN
            /\ Return(Err)
            /\ UNCHANGED <<watermark_req, log>>
       ELSE LET key == IF found.kind = "absent" THEN <<>> ELSE found.val
                warning == IF \E i \in 1..Len(key) : IsWhitespace(key[i])
                           THEN << <<"WATERMARKING: WARNING - API key contains whitespace!">> >>
                           ELSE <<>>
            IN  /\ pc' = "wm_config"
                /\ UNCHANGED <<resp, returned>>
                /\ IF key # <<>>
                   THEN /\ watermark_req' =
                             [watermark_req EXCEPT !.headers =
                                 SetHeader(SetHeader(@, "x-api-key", Trim(key)),
                                           "host", "api.stegawave.com")]
                        /\ log' = log \o warning \o
                             << <<"WATERMARKING: Adding API key to request", Prefix(key, 30)>> >>
                   ELSE /\ UNCHANGED watermark_req
                        /\ log' = log \o warning \o << <<"WATERMARKING: No API key found">> >>
    /\ UNCHANGED <<req, token, master_secret, service_api_key, claims,
                   should_watermark, segment_body_bytes, calls, decodes,
                   origin_resp, watermarked_resp>>
    /\ UNCHANGED earlier

\* ConfigHeader with a default for a field that is absent.
ConfigHeaderDefaulted(hs, field, found) ==
    IF found.kind = "value" THEN SetHeader(hs, field, found.val)
    ELSE SetHeader(hs, field, "0")

\* Lines 274-276 (and 277-285 alike): if let Some(body) = lookup, set the
\* header of that name to the value; nothing otherwise.
ConfigHeader(hs, field, found) ==
    IF found.kind = "value" THEN SetHeader(hs, field, found.val) ELSE hs

\* Lines 274-285: each field that is present becomes a header, in order; the
\* lookups stop at the first one that fails.
RECURSIVE ConfigHeaders(_, _, _)
ConfigHeaders(hs, found, i) ==
    IF i > Len(ConfigFields) THEN hs
    ELSE LET field == ConfigFields[i]
         IN  ConfigHeaders(ConfigHeader(hs, field, found[field]), found, i + 1)

ConfigFieldSet == {ConfigFields[i] : i \in 1..Len(ConfigFields)}
ConfigLookups ==
    [ConfigFieldSet -> {"value", "absent", "error"}]

\* The index of the first lookup that fails, 0 if none does.
FirstError(kinds) ==
    IF \E i \in 1..Len(ConfigFields) : kinds[ConfigFields[i]] = "error"
    THEN CHOOSE i \in 1..Len(ConfigFields) :
            /\ kinds[ConfigFields[i]] = "error"
            /\ \A j \in 1..(i - 1) : kinds[ConfigFields[j]] # "error"
    ELSE 0

(***************************************************************************)
(* handle_request, lines 272-285: the encoding configuration.              *)
(***************************************************************************)
PrepareConfig(open, kinds) ==
    /\ pc = "wm_config"
    /\ LET failed == FirstError(kinds)
           looked == IF failed = 0 THEN Len(ConfigFields) ELSE failed
           found == [f \in ConfigFieldSet |->
                        IF kinds[f] = "value" THEN Value(ConfigValue(f))
                        ELSE IF kinds[f] = "absent" THEN Absent ELSE LookupError]
       IN  /\ kv_ops' = kv_ops \o
                 (IF open = "ok"
                  THEN << <<DICTIONARY_CONFIG, "open", [kind |-> open]>> >> \o
                       [i \in 1..looked |->
                           <<DICTIONARY_CONFIG, ConfigFields[i], found[ConfigFields[i]]>>]
                  ELSE << <<DICTIONARY_CONFIG, "open", [kind |-> open]>> >>)
           /\ IF open = "err" THEN
                   /\ Return(Err)
                   /\ UNCHANGED watermark_req
              ELSE IF open = "missing" THEN
                   /\ Panic
                   /\ UNCHANGED watermark_req
              ELSE IF failed # 0 THEN
                   /\ Return(Err)
                   /\ UNCHANGED watermark_req
              ELSE /\ watermark_req' =
                        [watermark_req EXCEPT !.headers = ConfigHeaders(@, found, 1)]
                   /\ pc' = "wm_send"
                   /\ UNCHANGED <<resp, returned>>
    /\ UNCHANGED <<req, token, master_secret, service_api_key, claims,
                   should_watermark, segment_body_bytes, calls, decodes,
                   origin_resp, watermarked_resp, log>>
    /\ UNCHANGED earlier

\* FallbackResponse with the backend failure surfaced as 502.
FallbackBadGateway(bytes) ==
    [status |-> 502,
     headers |-> AppendHeader(<<>>, CONTENT_TYPE, "video/mp4"),
     body |-> bytes]

\* Lines 294-296, 312-314, 353-355: the original bytes, as a segment.
FallbackResponse(bytes) ==
    [status |-> 200,
     headers |-> AppendHeader(<<>>, CONTENT_TYPE, "video/mp4"),
     body |-> bytes]

\* Lines 322-324: set_header for each (name, value) of the backend response.
RECURSIVE CopyHeaders(_, _)
CopyHeaders(hs, from) ==
    IF from = <<>> THEN hs
    ELSE CopyHeaders(SetHeader(hs, Head(from)[1], Head(from)[2]), Tail(from))

\* WatermarkedResponse without the copy of the headers.
WatermarkedResponseNoHeaders(r) ==
    [status |-> r.status, headers |-> <<>>, body |-> r.body]

\* WatermarkedResponse with the status fixed to 200.
WatermarkedResponseOk(r) ==
    [status |-> 200, headers |-> CopyHeaders(<<>>, r.headers), body |-> r.body]

\* Lines 318-326.
WatermarkedResponse(r) ==
    [status |-> r.status, headers |-> CopyHeaders(<<>>, r.headers), body |-> r.body]

(***************************************************************************)
(* handle_request, lines 289-356: send to the watermarking service and     *)
(* choose the response.                                                    *)
(***************************************************************************)
SendWatermark(outcome) ==
    /\ pc = "wm_send"
    /\ calls' = Append(calls, watermark_req)
    /\ IF ~outcome.sent THEN
            /\ Return(Ok(FallbackResponse(segment_body_bytes)))
            /\ log' = Append(log, <<"WATERMARKING: Falling back to original content due to backend error">>)
            /\ UNCHANGED watermarked_resp
       ELSE /\ watermarked_resp' = Some(outcome.resp)
            /\ IF outcome.resp.body.len = 0 THEN
                    /\ Return(Ok(FallbackResponse(segment_body_bytes)))
                    /\ log' = Append(log, <<"WATERMARKING: Service returned empty response, falling back to original content", outcome.resp.status>>)
               ELSE IF IsSuccess(outcome.resp.status) THEN
                    /\ Return(Ok(WatermarkedResponse(outcome.resp)))
                    /\ log' = Append(log, <<"WATERMARKING: Service returned watermarked content", outcome.resp.body.len>>)
               ELSE /\ Return(Ok(FallbackResponse(segment_body_bytes)))
                    /\ log' = log \o
                         << <<"WATERMARKING: Error response status", outcome.resp.status>>,
                            <<"WATERMARKING: Error response body", outcome.resp.body>>,
                            <<"WATERMARKING: Service failed, falling back to original content">> >>
    /\ UNCHANGED <<req, locals, kv_ops, decodes, origin_resp>>
    /\ UNCHANGED earlier

(***************************************************************************)
(* The invocation ends with the response (or the abort); the next request  *)
(* starts from nothing.                                                    *)
(***************************************************************************)
EndInvocation ==
    /\ pc \in {"done", "panicked"}
    /\ pc' = "idle"
    /\ req' = NoRequest
    /\ token' = <<>>
    /\ master_secret' = <<>>
    /\ service_api_key' = <<>>
    /\ claims' = None
    /\ should_watermark' = FALSE
    /\ segment_body_bytes' = EmptyBody
    /\ watermark_req' = NoOutbound
    /\ resp' = None
    /\ returned' = None
    /\ calls' = <<>>
    /\ kv_ops' = <<>>
    /\ decodes' = 0
    /\ origin_resp' = None
    /\ watermarked_resp' = None
    /\ log' = <<>>
    /\ UNCHANGED earlier

(***************************************************************************)
(* The specification.                                                      *)
(***************************************************************************)
Next ==
    \/ \E r \in Requests : Receive(r)
    \/ Preflight
    \/ ExtractToken
    \/ \E open \in OpenResults, found \in SecretLookups : LookupSecret(open, found)
    \/ \E open \in OpenResults, found \in ApiKeyLookups : LookupApiKey(open, found)
    \/ VerifyToken
    \/ \E draw \in Draws : Route(draw)
    \/ \E outcome \in OriginOutcomes : ForwardManifest(outcome)
    \/ \E outcome \in OriginOutcomes : ForwardStandard(outcome)
    \/ \E outcome \in OriginOutcomes : FetchOriginal(outcome)
    \/ \E open \in OpenResults, found \in ApiKeyLookups : PrepareApiKey(open, found)
    \/ \E open \in OpenResults, kinds \in ConfigLookups : PrepareConfig(open, kinds)
    \/ \E outcome \in WatermarkOutcomes : SendWatermark(outcome)
    \/ EndInvocation

Spec == Init /\ [][Next]_vars

(***************************************************************************)
(* Two requests in a row.  Each invocation has only the locals of          *)
(* handle_request (the program has no static), so a request that runs      *)
(* before or during another one can reach it through the stores and the    *)
(* backends only, whose answers are free at every call.  To compare two    *)
(* requests, the end of an invocation remembers what the request saw and   *)
(* what it was answered; the inputs are a part of those of Spec.           *)
(***************************************************************************)
\* What a request saw: itself, what the stores gave, the draw, what the
\* backends answered.
Observed ==
    [req |-> req, reads |-> kv_ops, drawn |-> should_watermark,
     origin |-> origin_resp, watermarking |-> watermarked_resp]

EndInvocationRememberedKeepsSecret ==
    /\ pc \in {"done", "panicked"}
    /\ earlier' = Some([saw |-> Observed, answer |-> resp])
    /\ pc' = "idle"
    /\ req' = NoRequest
    /\ token' = <<>>
    /\ claims' = None
    /\ should_watermark' = FALSE
    /\ segment_body_bytes' = EmptyBody
    /\ watermark_req' = NoOutbound
    /\ resp' = None
    /\ returned' = None
    /\ calls' = <<>>
    /\ kv_ops' = <<>>
    /\ decodes' = 0
    /\ origin_resp' = None
    /\ watermarked_resp' = None
    /\ log' = <<>>
    /\ UNCHANGED <<master_secret, service_api_key>>

\* EndInvocation, with the request that ends remembered.
EndInvocationRemembered ==
    /\ pc \in {"done", "panicked"}
    /\ earlier' = Some([saw |-> Observed, answer |-> resp])
    /\ pc' = "idle"
    /\ req' = NoRequest
    /\ token' = <<>>
    /\ master_secret' = <<>>
    /\ service_api_key' = <<>>
    /\ claims' = None
    /\ should_watermark' = FALSE
    /\ segment_body_bytes' = EmptyBody
    /\ watermark_req' = NoOutbound
    /\ resp' = None
    /\ returned' = None
    /\ calls' = <<>>
    /\ kv_ops' = <<>>
    /\ decodes' = 0
    /\ origin_resp' = None
    /\ watermarked_resp' = None
    /\ log' = <<>>

PairRequests ==
    {r \in Requests :
        /\ r.method \in {"GET", "OPTIONS"}
        /\ r.query = <<>>
        /\ r.path \in { <<"/", "a", ".", "m", "p", "d">>,
                        <<"/", "a", ".", "m", "3", "u", "8", "/", "s", ".", "t", "s">> }
        /\ r.authorization \in { Some(BearerPrefix \o <<"tok_good">>),
                                 Some(BearerPrefix \o <<"tok_otherkey">>) }}
PairSecretLookups == {Value(<<" ", "a", "b", "\n">>), Value(<<"c", "d">>)}
PairApiKeyLookups == {Value(K1), Value(K2), Absent}
PairOriginOutcomes ==
    {TransportError} \cup
    {Answer(r) : r \in {o \in OriginResponses :
                            /\ o.headers = <<>>
                            /\ <<o.status, o.body.len>> \in
                                   {<<200, MAX_AUDIO_SEGMENT_SIZE>>, <<404, 0>>}}}
PairConfigLookups ==
    {kinds \in ConfigLookups :
        \/ \A f \in ConfigFieldSet : kinds[f] = "value"
        \/ \A f \in ConfigFieldSet : kinds[f] = "absent"}
PairWatermarkOutcomes ==
    {TransportError} \cup
    {Answer(r) : r \in {w \in WatermarkResponses :
                            /\ w.status = 200
                            /\ w.body.len > 0
                            /\ w.headers = << <<CONTENT_TYPE, "audio/mp4">> >>}}
PairDraws == {0, 999}

NextPair ==
    \/ \E r \in PairRequests : Receive(r)
    \/ Preflight
    \/ ExtractToken
    \/ \E found \in PairSecretLookups : LookupSecret("ok", found)
    \/ \E found \in PairApiKeyLookups : LookupApiKey("ok", found)
    \/ VerifyToken
    \/ \E draw \in PairDraws : Route(draw)
    \/ \E outcome \in PairOriginOutcomes : ForwardManifest(outcome)
    \/ \E outcome \in PairOriginOutcomes : ForwardStandard(outcome)
    \/ \E outcome \in PairOriginOutcomes : FetchOriginal(outcome)
    \/ \E found \in PairApiKeyLookups : PrepareApiKey("ok", found)
    \/ \E kinds \in PairConfigLookups : PrepareConfig("ok", kinds)
    \/ \E outcome \in PairWatermarkOutcomes : SendWatermark(outcome)
    \/ EndInvocationRemembered

SpecPair == Init /\ [][NextPair]_vars

(***************************************************************************)
(* Vocabulary of the properties, stated on the request and on what was     *)
(* observed (calls, store operations, backend answers, response), not on   *)
(* the handler's own tests.                                                *)
(***************************************************************************)
Last(seq) == seq[Len(seq)]

Response == resp.val
OriginAnswer == origin_resp.val
WatermarkAnswer == watermarked_resp.val

CallsTo(backend) == {i \in 1..Len(calls) : calls[i].backend = backend}

\* The request carries an Authorization header that starts with "Bearer ".
HasBearerHeader(r) ==
    /\ r.authorization.some
    /\ Len(r.authorization.val) >= Len(BearerPrefix)
    /\ \A i \in 1..Len(BearerPrefix) : r.authorization.val[i] = BearerPrefix[i]

\* The request carries a query parameter named token.
HasTokenParam(r) == \E i \in 1..Len(r.query) : r.query[i][1] = "token"

\* The token this request presented is a signed-claims token made with the
\* key derived from the configuration read for this request, it carries the
\* user key and it has not expired.
TokenIsValid ==
    /\ Len(token) = 1
    /\ token[1] \in JwtNames
    /\ JwtTable[token[1]].sig =
          <<"HMAC-SHA256", master_secret, <<"jwt_secret:">> \o service_api_key>>
    /\ JwtTable[token[1]].user_key.some
    /\ ~JwtTable[token[1]].expired

\* The call to the watermarking service was made and failed: no answer, an
\* answer without content, or an answer with a non-success status.
WatermarkCallFailed ==
    /\ CallsTo("origin_2") # {}
    /\ pc = "done"
    /\ \/ ~watermarked_resp.some
       \/ WatermarkAnswer.body.len = 0
       \/ WatermarkAnswer.status < 200
       \/ WatermarkAnswer.status > 299

\* The watermarking service answered with content and the given status set.
WatermarkAnswered(statuses) ==
    /\ pc = "done"
    /\ watermarked_resp.some
    /\ WatermarkAnswer.status \in statuses
    /\ WatermarkAnswer.body.len > 0

(***************************************************************************)
(* C1.  Whenever a backend has been contacted in the handling of a         *)
(* request, the request is not a preflight and its token was verified      *)
(* successfully before: the verification ran, gave claims, and the token   *)
(* is a valid one for the configured key.                                  *)
(***************************************************************************)
C1_AuthBeforeBackend ==
    (calls # <<>> \/ pc \in {"manifest", "standard", "fetch", "wm_api_key", "wm_config", "wm_send"}) =>
        /\ req.method # "OPTIONS"
        /\ decodes = 1
        /\ claims.some
        /\ TokenIsValid

C1_Witness ==
    /\ pc = "done"
    /\ CallsTo("origin_1") # {}
    /\ CallsTo("origin_2") # {}
    /\ TokenIsValid

(***************************************************************************)
(* C2.  A request other than OPTIONS without a Bearer header and without   *)
(* a token query parameter ends with status 401, whatever the stores       *)
(* hold: no store is opened or read, nothing is sent to a backend, and the *)
(* invocation never aborts.                                                *)
(***************************************************************************)
C2_NoCredential401 ==
    (/\ pc \notin {"idle", "main"}
     /\ req.method # "OPTIONS"
     /\ ~HasBearerHeader(req)
     /\ ~HasTokenParam(req)) =>
        /\ pc = "done"
        /\ Response.status = 401
        /\ calls = <<>>
        /\ kv_ops = <<>>

C2_Witness ==
    /\ pc = "done"
    /\ req.method = "POST"
    /\ req.authorization.some
    /\ ~HasBearerHeader(req)
    /\ ~HasTokenParam(req)
    /\ Response.status = 401

(***************************************************************************)
(* C3.  When the call to the watermarking service failed (transport error, *)
(* empty body with any status, non-success status with a body), the client *)
(* gets status 200, exactly the bytes the primary origin answered, and the *)
(* single Content-Type video/mp4.                                          *)
(***************************************************************************)
C3_FallbackOnFailure ==
    WatermarkCallFailed =>
        /\ Response.status = 200
        /\ Response.body = OriginAnswer.body
        /\ HeaderValues(Response.headers, CONTENT_TYPE) = <<"video/mp4">>

C3_Witness ==
    /\ WatermarkCallFailed
    /\ watermarked_resp.some
    /\ WatermarkAnswer.status = 500
    /\ WatermarkAnswer.body.len > 0
    /\ OriginAnswer.body.len > 0
    /\ OriginAnswer.status = 206
    /\ Response.status = 200

(***************************************************************************)
(* C4.  Once the original segment was fetched with a success status on the *)
(* watermarking path, the response of the request is the original bytes    *)
(* with status 200 or the watermarking service's successful non-empty      *)
(* answer, never an error, also when a store open or lookup fails while    *)
(* the watermark request is prepared.                                      *)
(***************************************************************************)
C4_SecondHopNeverBreaks ==
    (/\ pc = "done"
     /\ should_watermark
     /\ origin_resp.some
     /\ OriginAnswer.status >= 200
     /\ OriginAnswer.status <= 299) =>
        \/ /\ Response.status = 200
           /\ Response.body = OriginAnswer.body
        \/ /\ watermarked_resp.some
           /\ WatermarkAnswer.status \in 200..299
           /\ WatermarkAnswer.body.len > 0
           /\ Response.status = WatermarkAnswer.status
           /\ Response.body = WatermarkAnswer.body

(***************************************************************************)
(* C5.  When the watermarking service answered 200 with a non-empty body,  *)
(* the client gets status 200, exactly that body, and every header name    *)
(* the service set.                                                        *)
(***************************************************************************)
C5_WatermarkedServed ==
    WatermarkAnswered({200}) =>
        /\ Response.status = 200
        /\ Response.body = WatermarkAnswer.body
        /\ HeaderNames(WatermarkAnswer.headers) \subseteq HeaderNames(Response.headers)

C5_Witness ==
    /\ WatermarkAnswered({200})
    /\ Len(WatermarkAnswer.headers) > 1
    /\ Response.body = WatermarkAnswer.body

C7_OversizeStatus200 ==
    (/\ pc = "done"
     /\ ~IsManifest(req.path)
     /\ origin_resp.some
     /\ OriginAnswer.status \in 200..299
     /\ OriginAnswer.body.len > 500 * 1024) =>
        /\ CallsTo("origin_2") = {}
        /\ Response.body = OriginAnswer.body
        /\ Response.status = 200

(***************************************************************************)
(* C7, amended.  A response of the primary origin whose body is longer     *)
(* than the threshold is never sent to the watermarking service, whatever  *)
(* the draw, and the client gets the origin's bytes; the status is 200     *)
(* when the request was selected for watermarking and the origin answered  *)
(* a success status, and the origin's own status otherwise.                *)
(***************************************************************************)
C7_OversizeNeverWatermarked ==
    (/\ origin_resp.some
     /\ OriginAnswer.body.len > 500 * 1024) =>
        /\ pc = "done"
        /\ CallsTo("origin_2") = {}
        /\ Response.body = OriginAnswer.body
        /\ Response.status =
              IF should_watermark /\ OriginAnswer.status \in 200..299
              THEN 200
              ELSE OriginAnswer.status

C7_Witness ==
    /\ pc = "done"
    /\ should_watermark
    /\ origin_resp.some
    /\ OriginAnswer.status = 206
    /\ OriginAnswer.body.len = 500 * 1024 + 1
    /\ Response.status = 200
    /\ Response.body = OriginAnswer.body

(***************************************************************************)
(* C8.  An authenticated request for a manifest never reaches the draw or  *)
(* the watermarking path; when it ends, exactly one call was made, to the  *)
(* primary origin, with the method, path, query and body of the request,   *)
(* and none to the watermarking service; what the origin answered is the   *)
(* client's response: its status, its body and its headers, but for the    *)
(* Access-Control-Allow-Origin that main sets.                             *)
(***************************************************************************)
C8_ManifestPassThrough ==
    (claims.some /\ (\E suffix \in ManifestSuffixes : EndsWith(req.path, suffix))) =>
        /\ pc \in {"route", "manifest", "done"}
        /\ ~should_watermark
        /\ pc = "done" =>
              /\ Len(calls) = 1
              /\ calls[1].backend = "origin_1"
              /\ calls[1].method = req.method
              /\ calls[1].path = req.path
              /\ calls[1].query = req.query
              /\ calls[1].body = req.body
              /\ origin_resp.some =>
                    /\ Response.status = OriginAnswer.status
                    /\ Response.body = OriginAnswer.body
                    /\ RemoveHeader(Response.headers, ACAO) =
                       RemoveHeader(OriginAnswer.headers, ACAO)

C8_Witness ==
    /\ pc = "done"
    /\ claims.some
    /\ req.method = "POST"
    /\ req.path = <<"/", "a", ".", "c", "m", "f", "v">>
    /\ req.query # <<>>
    /\ origin_resp.some
    /\ OriginAnswer.status = 404
    /\ Response.status = 404

(***************************************************************************)
(* C9.  An OPTIONS request ends with status 200 and exactly the three CORS *)
(* headers with their fixed values; no token is decoded, no store is       *)
(* opened or read and nothing is sent to a backend, whatever the path and  *)
(* the headers of the request.                                             *)
(***************************************************************************)
C9_Preflight ==
    (req.method = "OPTIONS" /\ pc \notin {"idle", "main"}) =>
        /\ pc = "done"
        /\ Response.status = 200
        /\ HeaderNames(Response.headers) = {ACAO, ACAM, ACAH}
        /\ HeaderValues(Response.headers, ACAO) = <<"*">>
        /\ HeaderValues(Response.headers, ACAM) = <<"GET, HEAD, POST, OPTIONS">>
        /\ HeaderValues(Response.headers, ACAH) = <<"Content-Type, Authorization, X-API-Key">>
        /\ decodes = 0
        /\ kv_ops = <<>>
        /\ calls = <<>>

C9_Witness ==
    /\ pc = "done"
    /\ req.method = "OPTIONS"
    /\ HasBearerHeader(req)
    /\ ~IsManifest(req.path)
    /\ Response.status = 200

(***************************************************************************)
(* C10.  Every response main returns carries Access-Control-Allow-Origin   *)
(* with the single value "*".                                              *)
(***************************************************************************)
C10_CorsOnEveryResponse ==
    resp.some => HeaderValues(Response.headers, ACAO) = <<"*">>

C10_Witness ==
    /\ pc = "done"
    /\ origin_resp.some
    /\ Len(HeaderValues(OriginAnswer.headers, ACAO)) = 2
    /\ Response.status = OriginAnswer.status
    /\ HeaderValues(Response.headers, ACAO) = <<"*">>

(***************************************************************************)
(* C11.  When the draw selected the request for watermarking and the       *)
(* origin answered the fetch of the original segment with a status outside *)
(* 200..299, the invocation is over with that one call to origin_1 and no  *)
(* call to origin_2, handle_request returned the origin's response itself  *)
(* (status, headers and body), and the client gets that status, that body  *)
(* and those headers, with the Access-Control-Allow-Origin of main.        *)
(***************************************************************************)
C11_OriginFailureVerbatim ==
    (/\ should_watermark
     /\ origin_resp.some
     /\ (OriginAnswer.status < 200 \/ OriginAnswer.status > 299)) =>
        /\ pc = "done"
        /\ Len(calls) = 1
        /\ calls[1].backend = "origin_1"
        /\ ~watermarked_resp.some
        /\ returned = Some([ok |-> TRUE, resp |-> OriginAnswer])
        /\ Response.status = OriginAnswer.status
        /\ Response.body = OriginAnswer.body
        /\ RemoveHeader(Response.headers, ACAO) = RemoveHeader(OriginAnswer.headers, ACAO)
        /\ HeaderValues(Response.headers, ACAO) = <<"*">>

C11_Witness ==
    /\ pc = "done"
    /\ should_watermark
    /\ origin_resp.some
    /\ OriginAnswer.status = 404
    /\ OriginAnswer.headers # <<>>
    /\ OriginAnswer.body.len > 0
    /\ Response.status = 404
    /\ Len(calls) = 1

(***************************************************************************)
(* C12.  Every request whose token went to verification and is not a       *)
(* valid one (malformed, signed with another key, without the claims,      *)
(* expired) ends with one and the same response: status 401, the fixed     *)
(* body "Invalid JWT." and the same two headers, so any two such requests  *)
(* get identical responses; nothing was sent to a backend, and the class   *)
(* of the failure is in the log only.                                      *)
(***************************************************************************)
C12_FailedVerificationUniform ==
    (decodes = 1 /\ ~TokenIsValid) =>
        /\ pc = "done"
        /\ Response =
              [status |-> 401,
               headers |-> << <<"content-type", "text/plain; charset=utf-8">>,
                              <<"access-control-allow-origin", "*">> >>,
               body |-> [data |-> "Invalid JWT.\n", len |-> 13]]
        /\ calls = <<>>
        /\ ~origin_resp.some
        /\ \E i \in 1..Len(log) :
              /\ log[i][1] = "JWT verification failed"
              /\ log[i][2] \in {"InvalidToken", "InvalidSignature", "Json", "ExpiredSignature"}

C12_Witness ==
    /\ pc = "done"
    /\ decodes = 1
    /\ Len(token) = 1
    /\ token[1] \in JwtNames
    /\ JwtTable[token[1]].expired
    /\ JwtTable[token[1]].issuer = [api_key |-> service_api_key, master_secret |-> master_secret]
    /\ Response.status = 401
    /\ \E i \in 1..Len(log) : log[i] = <<"JWT verification failed", "ExpiredSignature">>


(***************************************************************************)
(* Stored values, as the properties speak of them.                         *)
(***************************************************************************)
\* The value is empty or made of whitespace only.
IsBlank(v) == \A i \in 1..Len(v) : v[i] \in {" ", "\n", "\t"}

\* What is left of a value that is not blank when the whitespace around it
\* is dropped.
Core(v) ==
    LET inked == {i \in 1..Len(v) : v[i] \notin {" ", "\n", "\t"}}
        first == CHOOSE i \in inked : \A j \in inked : i <= j
        last == CHOOSE i \in inked : \A j \in inked : j <= i
    IN  [k \in 1..(last - first + 1) |-> v[first + k - 1]]

\* The value is hexadecimal: whole bytes, two digits each.
IsHex(v) == Len(v) % 2 = 0 /\ \A i \in 1..Len(v) : v[i] \in {"a", "b", "c", "d"}

\* The i-th store operation is the first lookup of that key in this request.
FirstLookupOf(i, key) ==
    /\ kv_ops[i][2] = key
    /\ \A j \in 1..(i - 1) : kv_ops[j][2] # key

BadSecretRead(i) ==
    /\ FirstLookupOf(i, "SECRET_KEY_HEX")
    /\ \/ kv_ops[i][3].kind = "absent"
       \/ /\ kv_ops[i][3].kind = "value"
          /\ (IsBlank(kv_ops[i][3].val) \/ ~IsHex(Core(kv_ops[i][3].val)))

BadApiKeyRead(i) ==
    /\ FirstLookupOf(i, "service_api_key")
    /\ \/ kv_ops[i][3].kind = "absent"
       \/ kv_ops[i][3].kind = "value" /\ IsBlank(kv_ops[i][3].val)

(***************************************************************************)
(* C13.  When a token was presented and the lookup of SECRET_KEY_HEX gave  *)
(* nothing, a blank value or a value that is not hexadecimal, or the       *)
(* lookup of service_api_key for the verification gave nothing or a blank  *)
(* value, the request ends there with status 500 and the fixed body        *)
(* "Server configuration error.": the token, valid or not, was never       *)
(* decoded and nothing was sent to a backend.                              *)
(***************************************************************************)
C13_ConfigErrorBeforeVerification ==
    \A i \in 1..Len(kv_ops) :
        (BadSecretRead(i) \/ BadApiKeyRead(i)) =>
            /\ i = Len(kv_ops)
            /\ pc = "done"
            /\ TokenOpt(req).some
            /\ Response.status = 500
            /\ Response.body = [data |-> "Server configuration error.\n", len |-> 28]
            /\ decodes = 0
            /\ calls = <<>>

C13_Witness ==
    /\ pc = "done"
    /\ req.authorization = Some(BearerPrefix \o <<"tok_good">>)
    /\ Len(kv_ops) = 4
    /\ kv_ops[2][3] = Value(<<" ", "a", "b", "\n">>)
    /\ BadApiKeyRead(4)
    /\ kv_ops[4][3] = Value(<<" ">>)
    /\ Response.status = 500


\* An internal failure happened in this request: the last store operation is
\* an open of a store that is not provisioned or cannot be opened, or a
\* lookup that failed; or the one send to the primary origin got no answer.
InternalFailure ==
    \/ kv_ops # <<>> /\ Last(kv_ops)[3].kind \in {"missing", "err", "error"}
    \/ Len(calls) = 1 /\ calls[1].backend = "origin_1" /\ ~origin_resp.some

(***************************************************************************)
(* C14.  A request other than OPTIONS in which an internal failure         *)
(* happened (a store that cannot be opened or is not provisioned, a failed *)
(* lookup, a send to the primary origin without an answer) ends with a     *)
(* response, and that response is status 500 with the fixed body           *)
(* "An internal error occurred.".                                          *)
(***************************************************************************)
C14_InternalFailureGeneric500 ==
    (req.method # "OPTIONS" /\ InternalFailure) =>
        /\ pc = "done"
        /\ resp.some
        /\ Response.status = 500
        /\ Response.body = [data |-> "An internal error occurred.\n", len |-> 28]


\* The body of the response is the content the watermarking service sent.
BodyFromWatermarking ==
    /\ pc = "done"
    /\ watermarked_resp.some
    /\ WatermarkAnswer.body.len > 0
    /\ Response.body = WatermarkAnswer.body

(***************************************************************************)
(* C15, as claimed.  The status of the response to a request other than    *)
(* OPTIONS is the primary origin's status, 200, 401 or 500, and it is 200  *)
(* whenever the body came from the watermarking service.                   *)
(***************************************************************************)
C15_StatusSet ==
    (pc = "done" /\ req.method # "OPTIONS") =>
        /\ Response.status \in
              {200, 401, 500} \cup (IF origin_resp.some THEN {OriginAnswer.status} ELSE {})
        /\ BodyFromWatermarking => Response.status = 200

(***************************************************************************)
(* C15, amended.  The status of the response to a request other than       *)
(* OPTIONS is the primary origin's status, the watermarking service's own  *)
(* status when the body came from it (a status in 200..299, not always     *)
(* 200), 200, 401 or 500.                                                  *)
(***************************************************************************)
C15_StatusSetWithBackendStatus ==
    (pc = "done" /\ req.method # "OPTIONS") =>
        /\ Response.status \in
              {200, 401, 500}
              \cup (IF origin_resp.some THEN {OriginAnswer.status} ELSE {})
              \cup (IF BodyFromWatermarking THEN {WatermarkAnswer.status} ELSE {})
        /\ BodyFromWatermarking =>
              /\ Response.status = WatermarkAnswer.status
              /\ Response.status >= 200
              /\ Response.status <= 299

C15_Witness ==
    /\ BodyFromWatermarking
    /\ req.method # "OPTIONS"
    /\ WatermarkAnswer.status = 201
    /\ OriginAnswer.status = 206
    /\ Response.status = 201


\* The token presented is a signed-claims token, and the pair its issuer
\* signed it with is the stored API key, as the lookup for the verification
\* gave it, and the master secret decoded from the store.
IssuerPairIsStored ==
    /\ Len(token) = 1
    /\ token[1] \in JwtNames
    /\ \E i \in 1..Len(kv_ops) :
          /\ FirstLookupOf(i, "service_api_key")
          /\ kv_ops[i][3] = [kind |-> "value", val |-> JwtTable[token[1]].issuer.api_key]
    /\ JwtTable[token[1]].issuer.master_secret = master_secret

(***************************************************************************)
(* C16.  A token is accepted only when the API key and the master secret   *)
(* its issuer derived the signing key from are exactly the stored API key  *)
(* and the decoded master secret; when the token went to verification and  *)
(* either of the two differs, the request ends with status 401 and nothing *)
(* was sent to a backend.                                                  *)
(***************************************************************************)
C16_AcceptedOnlyWithIssuerPair ==
    /\ claims.some => IssuerPairIsStored
    /\ (decodes = 1 /\ ~IssuerPairIsStored) =>
          /\ pc = "done"
          /\ ~claims.some
          /\ Response.status = 401
          /\ calls = <<>>

C16_Witness ==
    /\ pc = "done"
    /\ decodes = 1
    /\ token = <<"tok_good">>
    /\ master_secret = <<205>>
    /\ \E i \in 1..Len(kv_ops) : kv_ops[i] = <<"api_keys", "service_api_key", Value(K1)>>
    /\ Response.status = 401


\* A query value as the text it stands for: a plus or "%20" is a space,
\* "%2B" is a plus.
PlainValue(v) ==
    [j \in 1..Len(v) |->
        IF v[j] \in {"+", "%20"} THEN " " ELSE IF v[j] = "%2B" THEN "+" ELSE v[j]]

\* The parameters of a query, as names and the texts of their values.
Parameters(query) ==
    [i \in 1..Len(query) |-> <<query[i][1], PlainValue(query[i][2])>>]

\* What follows "Bearer " in the Authorization header.
HeaderToken(r) ==
    SubSeq(r.authorization.val, Len(BearerPrefix) + 1, Len(r.authorization.val))

\* The value of the first query parameter named token.
QueryToken(r) ==
    LET first == CHOOSE i \in 1..Len(r.query) :
                    /\ r.query[i][1] = "token"
                    /\ \A j \in 1..(i - 1) : r.query[j][1] # "token"
    IN  PlainValue(r.query[first][2])

(***************************************************************************)
(* C17.  Once the token of a request other than OPTIONS has been located:  *)
(* with an Authorization: Bearer header it is the token of the header,     *)
(* whatever the query holds, and with a header token that is not valid the *)
(* request ends with 401 and no backend call even when the query has a     *)
(* valid token; the token query parameter is the token only when there is  *)
(* no Bearer header.                                                       *)
(***************************************************************************)
C17_HeaderBeforeQuery ==
    (pc \notin {"idle", "main"} /\ req.method # "OPTIONS") =>
        /\ HasBearerHeader(req) => token = HeaderToken(req)
        /\ (~HasBearerHeader(req) /\ HasTokenParam(req)) => token = QueryToken(req)
        /\ (HasBearerHeader(req) /\ decodes = 1 /\ ~TokenIsValid) =>
              /\ pc = "done"
              /\ Response.status = 401
              /\ calls = <<>>

C17_Witness ==
    /\ pc = "done"
    /\ decodes = 1
    /\ req.authorization = Some(BearerPrefix \o <<"tok_expired">>)
    /\ HasTokenParam(req)
    /\ QueryToken(req) = <<"tok_good">>
    /\ JwtTable["tok_good"].issuer = [api_key |-> service_api_key, master_secret |-> master_secret]
    /\ Response.status = 401
    /\ calls = <<>>


(***************************************************************************)
(* C18.  In the handling of one request there is at most one send to       *)
(* origin_1 and at most one to origin_2 and to nothing else; a send to     *)
(* origin_2 is the second send, after the one to origin_1 was answered     *)
(* with a status in 200..299 and a body of at most 500 * 1024 bytes.       *)
(***************************************************************************)
C18_OneCallEachInOrder ==
    /\ \A i \in 1..Len(calls) : calls[i].backend \in {"origin_1", "origin_2"}
    /\ Cardinality(CallsTo("origin_1")) <= 1
    /\ Cardinality(CallsTo("origin_2")) <= 1
    /\ (CallsTo("origin_2") # {} \/ pc = "wm_send") =>
          /\ calls[1].backend = "origin_1"
          /\ CallsTo("origin_2") \subseteq {2}
          /\ origin_resp.some
          /\ OriginAnswer.status >= 200
          /\ OriginAnswer.status <= 299
          /\ OriginAnswer.body.len <= 500 * 1024

C18_Witness ==
    /\ pc = "done"
    /\ Len(calls) = 2
    /\ calls[1].backend = "origin_1"
    /\ calls[2].backend = "origin_2"
    /\ OriginAnswer.status = 206
    /\ OriginAnswer.body.len = 500 * 1024


(***************************************************************************)
(* C19.  A request with a valid token, for a path that is not a manifest,  *)
(* that the draw did not select, ends after exactly one send, to origin_1: *)
(* the method, path, query and body of the request and no header at all    *)
(* (so none of the client's); nothing is sent to origin_2.  When the       *)
(* origin answered, handle_request returned its response itself and the    *)
(* client gets its status, its body and its headers, with the              *)
(* Access-Control-Allow-Origin of main.                                    *)
(***************************************************************************)
C19_StandardPassThrough ==
    (/\ pc = "done"
     /\ decodes = 1
     /\ TokenIsValid
     /\ ~IsManifest(req.path)
     /\ ~should_watermark) =>
        /\ Len(calls) = 1
        /\ calls[1].backend = "origin_1"
        /\ calls[1].method = req.method
        /\ calls[1].path = req.path
        /\ calls[1].query = req.query
        /\ calls[1].body = req.body
        /\ calls[1].headers = <<>>
        /\ ~watermarked_resp.some
        /\ origin_resp.some =>
              /\ returned = Some([ok |-> TRUE, resp |-> OriginAnswer])
              /\ Response.status = OriginAnswer.status
              /\ Response.body = OriginAnswer.body
              /\ RemoveHeader(Response.headers, ACAO) = RemoveHeader(OriginAnswer.headers, ACAO)
              /\ HeaderValues(Response.headers, ACAO) = <<"*">>

C19_Witness ==
    /\ pc = "done"
    /\ decodes = 1
    /\ TokenIsValid
    /\ ~IsManifest(req.path)
    /\ ~should_watermark
    /\ req.method = "POST"
    /\ HasBearerHeader(req)
    /\ HasTokenParam(req)
    /\ origin_resp.some
    /\ OriginAnswer.status = 206
    /\ OriginAnswer.headers # <<>>
    /\ Response.status = 206


(***************************************************************************)
(* C20.  Every request sent to origin_2 has the method POST, the path of   *)
(* the client's request, the parameters of the client's query in their     *)
(* order followed by exactly one more parameter whose value is the user    *)
(* key of the token presented, the single Content-Type                     *)
(* application/octet-stream, and as body the bytes origin_1 answered.      *)
(***************************************************************************)
C20_WatermarkRequestShape ==
    \A i \in CallsTo("origin_2") :
        LET sent == Parameters(calls[i].query)
            orig == Parameters(req.query)
        IN  /\ calls[i].method = "POST"
            /\ calls[i].path = req.path
            /\ Len(sent) = Len(orig) + 1
            /\ SubSeq(sent, 1, Len(orig)) = orig
            /\ Last(sent)[2] = <<JwtTable[token[1]].user_key.val>>
            /\ HeaderValues(calls[i].headers, "content-type") = <<"application/octet-stream">>
            /\ origin_resp.some
            /\ calls[i].body = OriginAnswer.body

C20_Witness ==
    /\ pc = "done"
    /\ Len(calls) = 2
    /\ req.method = "GET"
    /\ req.query = << <<"q", <<"a", "+", "b">>>>, <<"token", <<"tok_good">>>> >>
    /\ calls[2].backend = "origin_2"
    /\ calls[2].method = "POST"
    /\ calls[2].query = << <<"q", <<"a", "%20", "b">>>>, <<"token", <<"tok_good">>>>,
                           <<"user_key", <<"u1">>>> >>
    /\ calls[2].body = OriginAnswer.body
    /\ OriginAnswer.body.len > 0


\* The four encoding-configuration fields and what their lookups gave in
\* this request.
EncodingFields ==
    {"FMP4_AAC_PROFILE", "FMP4_SAMPLE_RATE", "FMP4_CHANNELS", "FMP4_TRACK_ID"}
ConfigReads(field) ==
    {kv_ops[i][3] : i \in {j \in 1..Len(kv_ops) :
                              kv_ops[j][1] = "watermarking_config" /\ kv_ops[j][2] = field}}

\* The four fields were looked up and each is present or absent.
ConfigWasRead ==
    \A f \in EncodingFields :
        /\ ConfigReads(f) # {}
        /\ \A r \in ConfigReads(f) : r.kind \in {"value", "absent"}

\* The request for the watermarking service: the one being prepared, then
\* the one that was sent.
WatermarkCall ==
    IF CallsTo("origin_2") # {}
    THEN calls[CHOOSE i \in CallsTo("origin_2") : TRUE]
    ELSE watermark_req

(***************************************************************************)
(* C21.  Once the four encoding-configuration fields have been looked up,  *)
(* each present or absent, the request for the watermarking service is     *)
(* ready to be sent or has been sent, and it carries each field that is    *)
(* present as one header of that name with the stored value, no header for *)
(* a field that is absent, and no other header than Content-Type,          *)
(* X-API-Key and Host; this for every subset of the fields, the empty one  *)
(* included.                                                               *)
(***************************************************************************)
C21_ConfigFieldsAsHeaders ==
    ConfigWasRead =>
        /\ \/ pc = "wm_send" /\ CallsTo("origin_2") = {}
           \/ pc = "done" /\ CallsTo("origin_2") # {}
        /\ \A f \in EncodingFields :
              \A r \in ConfigReads(f) :
                  HeaderValues(WatermarkCall.headers, f) =
                      IF r.kind = "value" THEN <<r.val>> ELSE <<>>
        /\ HeaderNames(WatermarkCall.headers) \subseteq
              EncodingFields \cup {"content-type", "x-api-key", "host"}

C21_Witness ==
    /\ pc = "done"
    /\ ConfigWasRead
    /\ CallsTo("origin_2") # {}
    /\ ConfigReads("FMP4_AAC_PROFILE") = {[kind |-> "absent"]}
    /\ ConfigReads("FMP4_SAMPLE_RATE") = {[kind |-> "value", val |-> "44100"]}
    /\ ConfigReads("FMP4_CHANNELS") = {[kind |-> "absent"]}
    /\ ConfigReads("FMP4_TRACK_ID") = {[kind |-> "value", val |-> "1"]}
    /\ HeaderValues(WatermarkCall.headers, "FMP4_SAMPLE_RATE") = <<"44100">>
    /\ HeaderValues(WatermarkCall.headers, "FMP4_AAC_PROFILE") = <<>>

\* The same with all four fields absent.
C21_WitnessNoneStored ==
    /\ pc = "done"
    /\ ConfigWasRead
    /\ CallsTo("origin_2") # {}
    /\ \A f \in EncodingFields : ConfigReads(f) = {[kind |-> "absent"]}


C22_WitnessSameTwice ==
    /\ pc = "done"
    /\ earlier.some
    /\ earlier.val.saw = Observed
    /\ Len(calls) = 2
    /\ earlier.val.answer = resp


\* The texts a log line carries besides its label and its numbers.
LogTexts(line) ==
    IF line[1] \in {"API key used for secret derivation",
                    "WATERMARKING: Adding API key to request",
                    "Watermarking segment",
                    "WATERMARKING: Sending segment to watermarking service for path",
                    "WATERMARKING: Request URL"}
    THEN {line[2]}
    ELSE IF line[1] = "WATERMARKING: Skipping segment (too large)" THEN {line[3]}
    ELSE {}

\* The parts of a text: its non-empty runs of consecutive characters.
PartsOf(text) == {SubSeq(text, a, b) : a \in 1..Len(text), b \in 1..Len(text)} \ {<<>>}

\* The values the stores gave in this request for a key.
ValuesRead(key) ==
    {kv_ops[i][3].val : i \in {j \in 1..Len(kv_ops) :
                                  kv_ops[j][2] = key /\ kv_ops[j][3].kind = "value"}}

VerificationApiKey ==
    kv_ops[CHOOSE i \in 1..Len(kv_ops) : FirstLookupOf(i, "service_api_key")][3].val

(***************************************************************************)
(* C24.  Every request sent to origin_2 carries exactly one X-API-Key      *)
(* header, and its value is, without the whitespace around it, the service *)
(* API key that the lookup for the verification of this request's token    *)
(* gave, whatever the second lookup of the key gave.                       *)
(***************************************************************************)
C24_ApiKeyOfVerification ==
    \A i \in CallsTo("origin_2") :
        HeaderValues(calls[i].headers, "x-api-key") = <<Core(VerificationApiKey)>>


=============================================================================
